---- MODULE Spec2Model ----
(***************************************************************************)
(* Model of the lid-inspection pipeline of watcher_ui.py: the folder       *)
(* watcher thread, the Tk handlers (start, next image, level change,       *)
(* no-brand toggle, clear server, scheduled retry) and the analyze worker  *)
(* threads, with the Modbus discrete inputs, the accept GPIO line and the  *)
(* counters they share.                                                    *)
(***************************************************************************)
EXTENDS Integers, Sequences, FiniteSets, TLC

\* ------------------------------------------------------------------------
\* Bounds of the model
\* ------------------------------------------------------------------------
MaxThreads == 2
MaxImages == 3
MaxClicks == 2
MaxVanish == 1
MaxSpawns == 2
MaxTimers == 1
MaxSize == 2
MaxTime == 3
MaxWait == 2

\* ------------------------------------------------------------------------
\* Text: Python str values are tuples of one-character strings
\* ------------------------------------------------------------------------
\* The printable ASCII characters in code-point order, starting at 32 (code 96,
\* the grave accent, is written GRAVE: it cannot be written in a TLA+ string).
Ascii ==
  << " ", "!", "\"", "#", "$", "%", "&", "'", "(", ")", "*", "+", ",", "-", ".", "/",
     "0", "1", "2", "3", "4", "5", "6", "7", "8", "9", ":", ";", "<", "=", ">", "?",
     "@", "A", "B", "C", "D", "E", "F", "G", "H", "I", "J", "K", "L", "M", "N", "O",
     "P", "Q", "R", "S", "T", "U", "V", "W", "X", "Y", "Z", "[", "\\", "]", "^", "_",
     "GRAVE", "a", "b", "c", "d", "e", "f", "g", "h", "i", "j", "k", "l", "m", "n", "o",
     "p", "q", "r", "s", "t", "u", "v", "w", "x", "y", "z", "{", "|", "}", "~" >>

OrdTable == [c \in {Ascii[i] : i \in 1..Len(Ascii)} |->
               31 + (CHOOSE i \in 1..Len(Ascii) : Ascii[i] = c)]

Ord(c) == OrdTable[c]

Chr(n) == Ascii[n - 31]

UpperChar(c) == IF Ord(c) >= 97 /\ Ord(c) <= 122 THEN Chr(Ord(c) - 32) ELSE c

LowerChar(c) == IF Ord(c) >= 65 /\ Ord(c) <= 90 THEN Chr(Ord(c) + 32) ELSE c

\* str.upper() and str.lower()
Upper(s) == [i \in 1..Len(s) |-> UpperChar(s[i])]

Lower(s) == [i \in 1..Len(s) |-> LowerChar(s[i])]

\* str.startswith(p) and str.endswith(p)
StartsWith(s, p) == Len(s) >= Len(p) /\ SubSeq(s, 1, Len(p)) = p

EndsWith(s, p) == Len(s) >= Len(p) /\ SubSeq(s, Len(s) - Len(p) + 1, Len(s)) = p

\* a < b for Python str: lexicographic by code point, a proper prefix first
StrLess(a, b) ==
  \E k \in 1..(Len(b)) :
    /\ \A j \in 1..(k - 1) : j <= Len(a) /\ a[j] = b[j]
    /\ \/ k = Len(a) + 1
       \/ k <= Len(a) /\ Ord(a[k]) < Ord(b[k])

\* sorted(S) for a set of distinct str values
RECURSIVE sorted(_)
sorted(S) ==
  IF S = {} THEN << >>
  ELSE LET m == CHOOSE x \in S : \A y \in S \ {x} : StrLess(x, y)
       IN  << m >> \o sorted(S \ {m})

\* ------------------------------------------------------------------------
\* File names that may appear in the watched folder
\* ------------------------------------------------------------------------
F10 == << "1", "0", ".", "j", "p", "g" >>
F2 == << "2", ".", "J", "P", "G" >>
Files == {F10, F2}

ImageExts ==
  { << ".", "j", "p", "g" >>, << ".", "j", "p", "e", "g" >>, << ".", "p", "n", "g" >> }

\* the filter of list_images: f.lower().endswith((".jpg", ".jpeg", ".png"))
IsImageName(f) == \E e \in ImageExts : EndsWith(Lower(f), e)

\* ------------------------------------------------------------------------
\* Replies of the classification service, and what classify_image adds
\* ------------------------------------------------------------------------
ReplyAccept == << "A", "C", "C", "E", "P", "T", " ", "-", " ", "o", "k" >>
ReplyReject == << "r", "e", "j", "e", "c", "t", " ", "-", " ", "c", "u", "t" >>
ReplyOther == << "U", "n", "s", "u", "r", "e" >>
ReplyUnreadable == << "E", "r", "r", "o", "r", ":", " ", "U", "n", "a", "b", "l", "e" >>
TokAccept == << "A", "C", "C", "E", "P", "T" >>
TokReject == << "R", "E", "J", "E", "C", "T" >>

NoText == << >>

\* what the external service does with one request: a reply, or a transient failure
ServiceOutcomes ==
  { [kind |-> "reply", text |-> ReplyAccept],
    [kind |-> "reply", text |-> ReplyReject],
    [kind |-> "reply", text |-> ReplyOther],
    [kind |-> "transient", text |-> NoText] }

NoOutcome == [kind |-> "none", text |-> NoText]

\* classify_image(path, sensitivity, no_brand_mode): an unreadable file gives the
\* error string; in no-brand mode system_prompt is never bound and line 123
\* raises; otherwise the outcome is the service's.
classify_image(readable, no_brand_mode, svc) ==
  IF ~readable THEN [kind |-> "reply", text |-> ReplyUnreadable]
  ELSE IF no_brand_mode THEN [kind |-> "raise", text |-> "unbound"]
  ELSE IF svc.kind = "reply" THEN svc
  ELSE [kind |-> "raise", text |-> "transient"]

\* ------------------------------------------------------------------------
\* Program constants
\* ------------------------------------------------------------------------
\* POLL_INTERVAL, in tenths of a second
POLL_INTERVAL == 15

level_names == << "Lenient", "Relaxed", "Balanced", "Strict", "Very Strict" >>

\* the choices of the level menu exercised here
LevelChoices == {"Lenient", "Very Strict"}

\* list.index(x): the 0-based position of the first x in the list
IndexOf(list, x) ==
  (CHOOSE i \in 1..Len(list) :
     list[i] = x /\ \A j \in 1..(i - 1) : list[j] # x) - 1

\* every entry of the level menu
MenuChoices == {level_names[i] : i \in 1..Len(level_names)}

\* a level computed without the + 1 of line 301
LevelIndexFromZero(choice) == IndexOf(level_names, choice)

\* self.level_names.index(choice) + 1
LevelIndex(choice) == IndexOf(level_names, choice) + 1

\* ------------------------------------------------------------------------
\* State
\* ------------------------------------------------------------------------
VARIABLES
  dir,             \* the watched folder: file name -> "absent" | "writing" | "stable"
  images,          \* self.images
  idx,             \* self.idx
  seen,            \* self.seen
  analyzing,       \* self.analyzing
  accept_count,    \* self.accept_count
  reject_count,    \* self.reject_count
  modbus,          \* discrete inputs 0 and 1 of the Modbus store
  accept_output,   \* the GPIO output device (TRUE = on)
  sensitivity_var, \* self.sensitivity_var
  no_brand_var,    \* self.no_brand_var
  started,         \* start_inspection has run (poll_thr started)
  w,               \* the watch_folder thread: position and locals
  thr,             \* the analyze threads: position and locals
  timers,          \* pending right.after(...) callbacks
  classified,      \* history: the files classify_image was called for since the
                   \* last clear
  loadFailed,      \* history: the files display_image failed to load since the last
                   \* clear
  spawns,          \* history: analyze threads started so far
  vanished,        \* history: files removed from the folder by other processes so far
  clicks,          \* history: operator actions after start_inspection so far
  processed,       \* watcher_pi.main: the set processed
  pi,              \* watcher_pi.main: position, the list its for loop walks (batch),
                   \* what is left of it (pending) and the loop variable img
  piCalls,         \* history: classify_image calls made by main, per file
  piRaised,        \* history: the files whose classify_image call in main raised
  probe,           \* one call of is_file_stable on its own: the reads it makes, its
                   \* wait_time, and what it returned once it is done
  held,            \* history: the (level, no-brand) pairs sensitivity_var and
                   \* no_brand_var have held together so far
  race             \* history: "pending" while an analysis overtaken by a clear is
                   \* still running, "finished" once it has ended, until the
                   \* next analysis is started

vars ==
  << dir, images, idx, seen, analyzing, accept_count, reject_count, modbus,
     accept_output, sensitivity_var, no_brand_var, started, w, thr, timers,
     classified, loadFailed, spawns, vanished, clicks, processed, pi, piCalls,
     piRaised, probe, held, race >>

Threads == 1..MaxThreads

WIdle == [pc |-> "idle", current |-> {}, path |-> NoText]

\* path, lvl, nb, verdict, c: the locals of analyze. gate: what is_file_stable
\* answered in the display_image that started the thread. alone: no other analysis
\* and no clear has overlapped this one. readable: how the file read of
\* classify_image went. calls: classify_image calls made. raised: the exception
\* being handled ("unbound" for the unbound system_prompt, "transient" for a
\* failure of the service, "save" for the result file) and svc: what the service
\* answered, or would have answered, to the request that ended in it.
TFree ==
  [pc |-> "free", path |-> NoText, gate |-> FALSE, alone |-> FALSE,
   lvl |-> 0, nb |-> FALSE, readable |-> FALSE, calls |-> 0,
   verdict |-> NoText, c |-> 0, raised |-> "none", svc |-> NoOutcome]

InFlightPcs == {"call", "calling", "count", "store", "except", "finally"}

InFlight(t) == thr[t].pc \in InFlightPcs

Live(t) == thr[t].pc # "free"

\* the three reads of is_file_stable: which of them, if any, finds the file
\* missing (FileNotFoundError), the two sizes, the mtime and the clock at line 78
GateReads ==
  [missing : {"no", "size", "new_size", "mtime"}, size : 0..MaxSize,
   new_size : 0..MaxSize, mtime : 0..MaxTime, now : 0..MaxTime]

NoProbe ==
  [s |-> [missing |-> "size", size |-> 0, new_size |-> 0, mtime |-> 0, now |-> 0],
   wait |-> 0, done |-> TRUE, out |-> FALSE]

\* the application at start-up
InitApp ==
  /\ dir = [f \in Files |-> "absent"]
  /\ images = << >>
  /\ idx = 0
  /\ seen = {}
  /\ analyzing = FALSE
  /\ accept_count = 0
  /\ reject_count = 0
  /\ modbus = << 0, 0 >>
  /\ accept_output = FALSE
  /\ sensitivity_var = 2
  /\ no_brand_var = FALSE
  /\ started = FALSE
  /\ w = WIdle
  /\ thr = [t \in Threads |-> TFree]
  /\ timers = 0
  /\ classified = {}
  /\ loadFailed = {}
  /\ spawns = 0
  /\ vanished = 0
  /\ clicks = 0
  /\ held = {<< sensitivity_var, no_brand_var >>}
  /\ race = "none"

PiTop == [pc |-> "top", batch |-> << >>, pending |-> << >>, img |-> NoText]

\* watcher_pi.main at its first statement
InitHeadless ==
  /\ processed = {}
  /\ pi = PiTop
  /\ piCalls = [f \in Files |-> 0]
  /\ piRaised = {}

Init == InitApp /\ InitHeadless /\ probe = NoProbe

\* ------------------------------------------------------------------------
\* Helpers of the handlers
\* ------------------------------------------------------------------------
\* list_images(): the sorted image names present in the folder
list_images == sorted({f \in Files : dir[f] # "absent" /\ IsImageName(f)})

Range(s) == {s[i] : i \in 1..Len(s)}

\* What the three reads of is_file_stable can observe for a file in a given state:
\* a settled file has equal sizes and an old mtime; a file being written either
\* grows between the samples or has just been touched.
GateSamples(st) ==
  IF st = "absent"
  THEN {[missing |-> "size", size |-> 0, new_size |-> 0, mtime |-> 0, now |-> 0]}
  ELSE IF st = "stable"
       THEN {[missing |-> "no", size |-> 2, new_size |-> 2, mtime |-> 0,
              now |-> POLL_INTERVAL + 5]}
       ELSE {[missing |-> "no", size |-> 1, new_size |-> 2, mtime |-> 5, now |-> 5],
             [missing |-> "no", size |-> 2, new_size |-> 2, mtime |-> 0, now |-> 5]}

\* is_file_stable with the mtime test of line 78 left out
is_file_stable_sizes_only(s, wait_time) ==
  IF s.missing # "no" THEN FALSE
  ELSE s.size = s.new_size

\* is_file_stable(path, wait_time): a FileNotFoundError at any of the three
\* reads is caught at line 79 and answered with False
is_file_stable(s, wait_time) ==
  IF s.missing # "no" THEN FALSE
  ELSE s.size = s.new_size /\ (s.now - s.mtime) > wait_time

\* Image.open / thumbnail succeeds on a complete file, fails on a missing one,
\* and may do either on a file still being written.
LoadResults(st) ==
  IF st = "absent" THEN {FALSE} ELSE IF st = "stable" THEN {TRUE} ELSE {TRUE, FALSE}

\* threading.Thread(target=self.analyze, args=(path,)).start()
Spawn(path, gate) ==
  /\ \E t \in Threads : ~Live(t)
  /\ spawns < MaxSpawns
  /\ spawns' = spawns + 1
  /\ LET t == CHOOSE u \in Threads : ~Live(u) /\ \A v \in Threads : v < u => Live(v)
         lonely == \A u \in Threads : ~Live(u)
     IN  thr' = [u \in Threads |->
                   IF u = t
                   THEN [TFree EXCEPT !.pc = "spawned", !.path = path, !.gate = gate,
                                      !.alone = lonely]
                   ELSE [thr[u] EXCEPT !.alone = FALSE]]
  /\ race' = "none"

\* display_image from line 239 on, for the path read at line 238; tm is the
\* number of callbacks pending once the caller's own callback is consumed
DisplayPath(force, path, tm) ==
  \E s \in GateSamples(dir[path]) : \E loads \in LoadResults(dir[path]) :
    LET stable == is_file_stable(s, POLL_INTERVAL) IN
    IF ~stable /\ ~force
    THEN /\ tm < MaxTimers
         /\ timers' = tm + 1
         /\ UNCHANGED << thr, loadFailed, spawns, race >>
    ELSE IF ~loads
         THEN /\ timers' = tm
              /\ loadFailed' = loadFailed \cup {path}
              /\ UNCHANGED << thr, spawns, race >>
         ELSE /\ timers' = tm
              /\ Spawn(path, stable)
              /\ UNCHANGED loadFailed

\* display_image(force) on the list imgs at index i
display_image(force, imgs, i, tm) ==
  IF i >= Len(imgs)
  THEN /\ timers' = tm
       /\ UNCHANGED << thr, loadFailed, spawns, race >>
  ELSE DisplayPath(force, imgs[i + 1], tm)

\* ------------------------------------------------------------------------
\* The camera / FTP process writing into the folder
\* ------------------------------------------------------------------------
FileArrives(f) ==
  /\ dir[f] = "absent"
  /\ dir' = [dir EXCEPT ![f] = "writing"]
  /\ UNCHANGED << images, idx, seen, analyzing, accept_count, reject_count, modbus,
                  accept_output, sensitivity_var, no_brand_var, started, w, thr,
                  timers, classified, loadFailed, spawns, vanished, clicks, processed,
                  pi, piCalls, piRaised, probe, held, race >>

FileSettles(f) ==
  /\ dir[f] = "writing"
  /\ dir' = [dir EXCEPT ![f] = "stable"]
  /\ UNCHANGED << images, idx, seen, analyzing, accept_count, reject_count, modbus,
                  accept_output, sensitivity_var, no_brand_var, started, w, thr,
                  timers, classified, loadFailed, spawns, vanished, clicks, processed,
                  pi, piCalls, piRaised, probe, held, race >>

FileVanishes(f) ==
  /\ dir[f] # "absent"
  /\ vanished < MaxVanish
  /\ vanished' = vanished + 1
  /\ dir' = [dir EXCEPT ![f] = "absent"]
  /\ UNCHANGED << images, idx, seen, analyzing, accept_count, reject_count, modbus,
                  accept_output, sensitivity_var, no_brand_var, started, w, thr,
                  timers, classified, loadFailed, spawns, clicks, processed, pi,
                  piCalls, piRaised, probe, held, race >>

\* ------------------------------------------------------------------------
\* Tk handlers (all run on the UI thread)
\* ------------------------------------------------------------------------
start_inspection ==
  /\ ~started
  /\ started' = TRUE
  /\ images' = list_images
  /\ seen' = Range(images')
  /\ IF images' # << >>
     THEN /\ idx' = 0
          /\ display_image(FALSE, images', 0, timers)
     ELSE UNCHANGED << idx, thr, timers, loadFailed, spawns, race >>
  /\ UNCHANGED << dir, analyzing, accept_count, reject_count, modbus, accept_output,
                  sensitivity_var, no_brand_var, w, classified, vanished, clicks,
                  processed, pi, piCalls, piRaised, probe, held >>

next_image ==
  /\ clicks < MaxClicks
  /\ clicks' = clicks + 1
  /\ idx' = idx + 1
  /\ display_image(FALSE, images, idx', timers)
  /\ UNCHANGED << dir, images, seen, analyzing, accept_count, reject_count, modbus,
                  accept_output, sensitivity_var, no_brand_var, started, w,
                  classified, vanished, processed, pi, piCalls, piRaised, probe, held
                  >>

on_level_change(choice) ==
  /\ clicks < MaxClicks
  /\ clicks' = clicks + 1
  /\ sensitivity_var' = LevelIndex(choice)
  /\ held' = held \cup {<< sensitivity_var', no_brand_var >>}
  /\ display_image(TRUE, images, idx, timers)
  /\ UNCHANGED << dir, images, idx, seen, analyzing, accept_count, reject_count,
                  modbus, accept_output, no_brand_var, started, w, classified,
                  vanished, processed, pi, piCalls, piRaised, probe >>

\* the no_brand_cb Checkbutton: flips the variable, then runs its command
no_brand_toggle ==
  /\ clicks < MaxClicks
  /\ clicks' = clicks + 1
  /\ no_brand_var' = ~no_brand_var
  /\ held' = held \cup {<< sensitivity_var, no_brand_var' >>}
  /\ display_image(TRUE, images, idx, timers)
  /\ UNCHANGED << dir, images, idx, seen, analyzing, accept_count, reject_count,
                  modbus, accept_output, sensitivity_var, started, w, classified,
                  vanished, processed, pi, piCalls, piRaised, probe >>

\* the callback scheduled at line 241: display_image(force=True)
retry_callback ==
  /\ timers > 0
  /\ display_image(TRUE, images, idx, timers - 1)
  /\ UNCHANGED << dir, images, idx, seen, analyzing, accept_count, reject_count,
                  modbus, accept_output, sensitivity_var, no_brand_var, started, w,
                  classified, vanished, clicks, processed, pi, piCalls, piRaised,
                  probe, held >>

clear_server ==
  /\ clicks < MaxClicks
  /\ clicks' = clicks + 1
  /\ dir' = [f \in Files |-> "absent"]
  /\ images' = << >>
  /\ seen' = {}
  /\ idx' = 0
  /\ accept_count' = 0
  /\ reject_count' = 0
  /\ classified' = {}
  /\ loadFailed' = {}
  /\ thr' = [t \in Threads |->
               IF Live(t) THEN [thr[t] EXCEPT !.alone = FALSE] ELSE thr[t]]
  /\ race' = IF \E t \in Threads : Live(t) THEN "pending" ELSE "none"
  /\ UNCHANGED << analyzing, modbus, accept_output, sensitivity_var, no_brand_var,
                  started, w, timers, spawns, vanished, processed, pi, piCalls,
                  piRaised, probe, held >>

\* ------------------------------------------------------------------------
\* watch_folder (the poll_thr thread)
\* ------------------------------------------------------------------------
\* lines 223-228, and display_image up to the read of the path at line 238
watch_scan ==
  /\ started
  /\ w.pc = "idle"
  /\ ~analyzing
  /\ LET current == Range(list_images)
         new == sorted(current \ seen)
     IN  /\ new # << >>
         /\ Len(images) + Len(new) <= MaxImages
         /\ images' = images \o new
         /\ idx' = Len(images') - Len(new)
         /\ w' = [pc |-> "display", current |-> current, path |-> images'[idx' + 1]]
  /\ UNCHANGED << dir, seen, analyzing, accept_count, reject_count, modbus,
                  accept_output, sensitivity_var, no_brand_var, started, thr, timers,
                  classified, loadFailed, spawns, vanished, clicks, processed, pi,
                  piCalls, piRaised, probe, held, race >>

\* line 224: os.listdir raises inside list_images (the folder is unmounted or
\* unreadable); watch_folder has no handler, so the exception ends poll_thr
watch_listing_error ==
  /\ started
  /\ w.pc = "idle"
  /\ ~analyzing
  /\ w' = [WIdle EXCEPT !.pc = "dead"]
  /\ UNCHANGED << dir, images, idx, seen, analyzing, accept_count, reject_count,
                  modbus, accept_output, sensitivity_var, no_brand_var, started, thr,
                  timers, classified, loadFailed, spawns, vanished, clicks, processed,
                  pi, piCalls, piRaised, probe, held, race >>

\* line 229: display_image() from its stability check on
watch_display ==
  /\ w.pc = "display"
  /\ DisplayPath(FALSE, w.path, timers)
  /\ w' = [w EXCEPT !.pc = "seen", !.path = NoText]
  /\ UNCHANGED << dir, images, idx, seen, analyzing, accept_count, reject_count,
                  modbus, accept_output, sensitivity_var, no_brand_var, started,
                  classified, vanished, clicks, processed, pi, piCalls, piRaised,
                  probe, held >>

\* line 230: self.seen = current
watch_seen ==
  /\ w.pc = "seen"
  /\ seen' = w.current
  /\ w' = WIdle
  /\ UNCHANGED << dir, images, idx, analyzing, accept_count, reject_count, modbus,
                  accept_output, sensitivity_var, no_brand_var, started, thr, timers,
                  classified, loadFailed, spawns, vanished, clicks, processed, pi,
                  piCalls, piRaised, probe, held, race >>

\* ------------------------------------------------------------------------
\* analyze (one thread per display_image that got through)
\* ------------------------------------------------------------------------
\* lines 257-262: the flag, both sinks cleared, and the read of the level
analyze_begin(t) ==
  /\ thr[t].pc = "spawned"
  /\ analyzing' = TRUE
  /\ modbus' = << 0, 0 >>
  /\ accept_output' = FALSE
  /\ thr' = [thr EXCEPT ![t].pc = "call", ![t].lvl = sensitivity_var,
                        ![t].gate = FALSE]
  /\ UNCHANGED << dir, images, idx, seen, accept_count, reject_count, sensitivity_var,
                  no_brand_var, started, w, timers, classified, loadFailed, spawns,
                  vanished, clicks, processed, pi, piCalls, piRaised, probe, held,
                  race >>

\* line 263: no_brand_var is read and classify_image is entered; it reads the
\* file at once (lines 86-91), and the service then takes the request
analyze_call(t) ==
  /\ thr[t].pc = "call"
  /\ thr' = [thr EXCEPT ![t].pc = "calling", ![t].nb = no_brand_var, ![t].lvl = 0,
                        ![t].readable = (dir[thr[t].path] # "absent"),
                        ![t].calls = thr[t].calls + 1]
  /\ classified' = classified \cup {thr[t].path}
  /\ UNCHANGED << dir, images, idx, seen, analyzing, accept_count, reject_count,
                  modbus, accept_output, sensitivity_var, no_brand_var, started, w,
                  timers, loadFailed, spawns, vanished, clicks, processed, pi,
                  piCalls, piRaised, probe, held, race >>

Bit0(verdict) == IF StartsWith(Upper(verdict), TokAccept) THEN 1 ELSE 0

Bit1(verdict) == IF StartsWith(Upper(verdict), TokReject) THEN 1 ELSE 0

\* classify_image returns or raises, svc being what the service answers (or
\* would answer) to the request; lines 265-267 on a return. The locals read no
\* more are dropped.
analyze_return(t) ==
  /\ thr[t].pc = "calling"
  /\ \E svc \in (IF thr[t].readable THEN ServiceOutcomes ELSE {NoOutcome}) :
       LET out == classify_image(thr[t].readable, thr[t].nb, svc) IN
       IF out.kind = "reply"
       THEN /\ modbus' = << Bit0(out.text), Bit1(out.text) >>
            /\ thr' = [thr EXCEPT ![t].pc = "count", ![t].verdict = out.text,
                                  ![t].path = NoText, ![t].nb = FALSE,
                                  ![t].readable = FALSE]
       ELSE /\ thr' = [thr EXCEPT ![t].pc = "except", ![t].svc = svc,
                                  ![t].raised = out.text,
                                  ![t].path = NoText, ![t].nb = FALSE,
                                  ![t].readable = FALSE]
            /\ UNCHANGED modbus
  /\ UNCHANGED << dir, images, idx, seen, analyzing, accept_count, reject_count,
                  accept_output, sensitivity_var, no_brand_var, started, w, timers,
                  classified, loadFailed, spawns, vanished, clicks, processed, pi,
                  piCalls, piRaised, probe, held, race >>

\* lines 273 / 277, the read of `self.accept_count += 1` / `self.reject_count += 1`
analyze_count_read(t) ==
  /\ thr[t].pc = "count"
  /\ thr' = [thr EXCEPT ![t].pc = "store",
                        ![t].c = IF Bit0(thr[t].verdict) = 1 THEN accept_count
                                 ELSE reject_count]
  /\ UNCHANGED << dir, images, idx, seen, analyzing, accept_count, reject_count,
                  modbus, accept_output, sensitivity_var, no_brand_var, started, w,
                  timers, classified, loadFailed, spawns, vanished, clicks, processed,
                  pi, piCalls, piRaised, probe, held, race >>

\* lines 273 / 277, the write, lines 275 / 279, and lines 283-288, where the
\* result file is written or the write raises
analyze_count_write(t) ==
  /\ thr[t].pc = "store"
  /\ IF Bit0(thr[t].verdict) = 1
     THEN accept_count' = thr[t].c + 1 /\ UNCHANGED reject_count
     ELSE reject_count' = thr[t].c + 1 /\ UNCHANGED accept_count
  /\ accept_output' = (Bit0(thr[t].verdict) = 1)
  /\ \E saved \in BOOLEAN :
       thr' = [thr EXCEPT ![t].pc = IF saved THEN "finally" ELSE "except",
                          ![t].raised = IF saved THEN "none" ELSE "save",
                          ![t].c = 0, ![t].verdict = NoText]
  /\ UNCHANGED << dir, images, idx, seen, analyzing, modbus, sensitivity_var,
                  no_brand_var, started, w, timers, classified, loadFailed, spawns,
                  vanished, clicks, processed, pi, piCalls, piRaised, probe, held,
                  race >>

\* lines 290-292
analyze_except(t) ==
  /\ thr[t].pc = "except"
  /\ accept_output' = FALSE
  /\ thr' = [thr EXCEPT ![t].pc = "finally", ![t].raised = "none",
                        ![t].svc = NoOutcome]
  /\ UNCHANGED << dir, images, idx, seen, analyzing, accept_count, reject_count,
                  modbus, sensitivity_var, no_brand_var, started, w, timers,
                  classified, loadFailed, spawns, vanished, clicks, processed, pi,
                  piCalls, piRaised, probe, held, race >>

\* lines 293-294, and the thread ends
analyze_finally(t) ==
  /\ thr[t].pc = "finally"
  /\ analyzing' = FALSE
  /\ thr' = [thr EXCEPT ![t] = TFree]
  /\ race' = IF race = "pending" /\ \A u \in Threads \ {t} : ~Live(u)
             THEN "finished" ELSE race
  /\ UNCHANGED << dir, images, idx, seen, accept_count, reject_count, modbus,
                  accept_output, sensitivity_var, no_brand_var, started, w, timers,
                  classified, loadFailed, spawns, vanished, clicks, processed, pi,
                  piCalls, piRaised, probe, held >>

\* ------------------------------------------------------------------------
\* The system
\* ------------------------------------------------------------------------
\* the folder receives any of the files
Environment ==
  \E f \in Files : FileArrives(f) \/ FileSettles(f) \/ FileVanishes(f)

\* the folder receives one file only
SoloFiles == {F2}

EnvironmentSolo ==
  \E f \in SoloFiles : FileArrives(f) \/ FileSettles(f) \/ FileVanishes(f)

Operator ==
  \/ next_image
  \/ \E choice \in LevelChoices : on_level_change(choice)
  \/ no_brand_toggle
  \/ clear_server

Watcher == watch_scan \/ watch_listing_error \/ watch_display \/ watch_seen

Analyze(t) ==
  \/ analyze_begin(t)
  \/ analyze_call(t)
  \/ analyze_return(t)
  \/ analyze_count_read(t)
  \/ analyze_count_write(t)
  \/ analyze_except(t)
  \/ analyze_finally(t)

\* one file in the folder, and an operator at the controls
Next ==
  \/ EnvironmentSolo
  \/ start_inspection
  \/ Operator
  \/ retry_callback
  \/ Watcher
  \/ \E t \in Threads : Analyze(t)

Spec == Init /\ [][Next]_vars

\* several files in the folder, and no operator after start_inspection
NextBatch ==
  \/ Environment
  \/ start_inspection
  \/ retry_callback
  \/ Watcher
  \/ \E t \in Threads : Analyze(t)

BatchSpec == Init /\ [][NextBatch]_vars

\* ------------------------------------------------------------------------
\* watcher_pi: the headless loop
\* ------------------------------------------------------------------------
PiImageExts == { << ".", "j", "p", "g" >>, << ".", "j", "p", "e", "g" >> }

\* watcher_pi.list_images(): the sorted .jpg / .jpeg names present in the folder
pi_list_images ==
  sorted({f \in Files :
            dir[f] # "absent" /\ \E e \in PiImageExts : EndsWith(Lower(f), e)})

\* line 60: the for statement evaluates list_images()
pi_scan ==
  /\ pi.pc = "top"
  /\ pi' = [pc |-> "loop", batch |-> pi_list_images, pending |-> pi_list_images,
            img |-> NoText]
  /\ UNCHANGED << dir, images, idx, seen, analyzing, accept_count, reject_count,
                  modbus, accept_output, sensitivity_var, no_brand_var, started, w,
                  thr, timers, classified, loadFailed, spawns, vanished, clicks,
                  processed, piCalls, piRaised, probe, held, race >>

\* line 60: os.listdir raises; the call is outside the try block, and main ends
pi_listing_error ==
  /\ pi.pc = "top"
  /\ pi' = [PiTop EXCEPT !.pc = "dead"]
  /\ UNCHANGED << dir, images, idx, seen, analyzing, accept_count, reject_count,
                  modbus, accept_output, sensitivity_var, no_brand_var, started, w,
                  thr, timers, classified, loadFailed, spawns, vanished, clicks,
                  processed, piCalls, piRaised, probe, held, race >>

\* lines 60-62: the next img is in processed and is skipped
pi_skip ==
  /\ pi.pc = "loop"
  /\ pi.pending # << >>
  /\ Head(pi.pending) \in processed
  /\ pi' = [pi EXCEPT !.pending = Tail(pi.pending)]
  /\ UNCHANGED << dir, images, idx, seen, analyzing, accept_count, reject_count,
                  modbus, accept_output, sensitivity_var, no_brand_var, started, w,
                  thr, timers, classified, loadFailed, spawns, vanished, clicks,
                  processed, piCalls, piRaised, probe, held, race >>

\* lines 60-66: the next img is not in processed; classify_image is called
pi_classify_call ==
  /\ pi.pc = "loop"
  /\ pi.pending # << >>
  /\ Head(pi.pending) \notin processed
  /\ pi' = [pi EXCEPT !.pc = "classify", !.img = Head(pi.pending),
                      !.pending = Tail(pi.pending)]
  /\ piCalls' = [piCalls EXCEPT ![pi'.img] = piCalls[pi'.img] + 1]
  /\ UNCHANGED << dir, images, idx, seen, analyzing, accept_count, reject_count,
                  modbus, accept_output, sensitivity_var, no_brand_var, started, w,
                  thr, timers, classified, loadFailed, spawns, vanished, clicks,
                  processed, piRaised, probe, held, race >>

\* what a classify_image call of watcher_pi can do: return a reply when the file
\* could be read, or raise (unreadable file, failure of the service)
PiOutcomes(img) == IF dir[img] = "absent" THEN {"raise"} ELSE {"return", "raise"}

\* lines 65-70 with processed.add(img) moved into the try block, after the call
pi_classify_end_add_in_try ==
  /\ pi.pc = "classify"
  /\ \E out \in PiOutcomes(pi.img) :
       /\ processed' = IF out = "raise" THEN processed ELSE processed \cup {pi.img}
       /\ piRaised' = IF out = "raise" THEN piRaised \cup {pi.img} ELSE piRaised
  /\ pi' = [pi EXCEPT !.pc = "loop", !.img = NoText]
  /\ UNCHANGED << dir, images, idx, seen, analyzing, accept_count, reject_count,
                  modbus, accept_output, sensitivity_var, no_brand_var, started, w,
                  thr, timers, classified, loadFailed, spawns, vanished, clicks,
                  piCalls, probe, held, race >>

\* lines 66-70: classify_image returns or raises, the exception is caught, and
\* img is added to processed either way
pi_classify_end ==
  /\ pi.pc = "classify"
  /\ \E out \in PiOutcomes(pi.img) :
       piRaised' = IF out = "raise" THEN piRaised \cup {pi.img} ELSE piRaised
  /\ processed' = processed \cup {pi.img}
  /\ pi' = [pi EXCEPT !.pc = "loop", !.img = NoText]
  /\ UNCHANGED << dir, images, idx, seen, analyzing, accept_count, reject_count,
                  modbus, accept_output, sensitivity_var, no_brand_var, started, w,
                  thr, timers, classified, loadFailed, spawns, vanished, clicks,
                  piCalls, probe, held, race >>

\* line 71: the for loop is exhausted; sleep, then back to the top of the loop
pi_sleep ==
  /\ pi.pc = "loop"
  /\ pi.pending = << >>
  /\ pi' = [pi EXCEPT !.pc = "top"]
  /\ UNCHANGED << dir, images, idx, seen, analyzing, accept_count, reject_count,
                  modbus, accept_output, sensitivity_var, no_brand_var, started, w,
                  thr, timers, classified, loadFailed, spawns, vanished, clicks,
                  processed, piCalls, piRaised, probe, held, race >>

\* watcher_pi.main with files coming and going in its folder
NextHeadless ==
  \/ Environment
  \/ pi_scan
  \/ pi_listing_error
  \/ pi_skip
  \/ pi_classify_call
  \/ pi_classify_end
  \/ pi_sleep

HeadlessSpec == Init /\ [][NextHeadless]_vars

\* is_file_stable on its own: any reads, any wait_time
InitGate ==
  /\ InitApp
  /\ InitHeadless
  /\ probe \in [s : GateReads, wait : 0..MaxWait, done : {FALSE}, out : {FALSE}]

gate_call ==
  /\ ~probe.done
  /\ probe' = [probe EXCEPT !.done = TRUE,
                            !.out = is_file_stable(probe.s, probe.wait)]
  /\ UNCHANGED << dir, images, idx, seen, analyzing, accept_count, reject_count,
                  modbus, accept_output, sensitivity_var, no_brand_var, started, w,
                  thr, timers, classified, loadFailed, spawns, vanished, clicks,
                  processed, pi, piCalls, piRaised, held, race >>

GateSpec == InitGate /\ [][gate_call]_vars

\* one file in the folder, and an operator who works the level menu, with all
\* its entries
NextMenu ==
  \/ EnvironmentSolo
  \/ start_inspection
  \/ \E choice \in MenuChoices : on_level_change(choice)
  \/ retry_callback
  \/ Watcher
  \/ \E t \in Threads : Analyze(t)

MenuSpec == Init /\ [][NextMenu]_vars

\* ------------------------------------------------------------------------
\* Notions the properties are stated in
\* ------------------------------------------------------------------------
\* thread t takes the step that enters classify_image
CallStarts(t) == thr[t].pc = "call" /\ thr'[t].pc = "calling"

\* thread t takes the step in which classify_image returns or raises
CallEnds(t) == thr[t].pc = "calling" /\ thr'[t].pc \in {"count", "except"}

\* thread t takes the step that counts its verdict and drives the GPIO line
Counts(t) == thr[t].pc = "store" /\ thr'[t].pc \in {"finally", "except"}

\* the text the classifier answered to the request a record r is about
Answer(r) == IF r.pc = "except" THEN r.svc.text ELSE r.verdict

Accepts(text) == StartsWith(Upper(text), TokAccept)

Rejects(text) == StartsWith(Upper(text), TokReject)

\* f is done with: its load failed, or classify_image was called for it and the
\* call has ended
Terminal(f) ==
  \/ f \in loadFailed
  \/ f \in classified /\ \A t \in Threads : thr[t].path # f

\* nothing in the program can move until a file arrives or the operator acts
ProgramIdle ==
  /\ started
  /\ w.pc = "idle"
  /\ timers = 0
  /\ \A t \in Threads : ~Live(t)
  /\ Range(list_images) \subseteq seen

Digits == {"0", "1", "2", "3", "4", "5", "6", "7", "8", "9"}

\* the stem of a file name: what precedes its last dot
Stem(f) ==
  LET dots == {i \in 1..Len(f) : f[i] = "."} IN
  IF dots = {} THEN f
  ELSE SubSeq(f, 1, (CHOOSE i \in dots : \A j \in dots : j <= i) - 1)

IsNumeric(st) == Len(st) > 0 /\ \A i \in 1..Len(st) : st[i] \in Digits

RECURSIVE IntValue(_)
IntValue(st) ==
  IF st = << >> THEN 0
  ELSE 10 * IntValue(SubSeq(st, 1, Len(st) - 1)) + (Ord(st[Len(st)]) - 48)

\* Sequencer order: numeric stems ascending by value, before the other names
SequencerOrdered(names) ==
  \A i, j \in 1..Len(names) :
    i < j =>
      LET a == Stem(names[i])
          b == Stem(names[j])
      IN  /\ IsNumeric(b) => IsNumeric(a)
          /\ IsNumeric(a) /\ IsNumeric(b) => IntValue(a) <= IntValue(b)

\* ------------------------------------------------------------------------
\* Properties
\* ------------------------------------------------------------------------
\* C1: between two clears no file is classified more than once: classify_image
\* is never entered for a file it was already entered for since the last clear.
C1_ClassifiedOnce ==
  [][\A t \in Threads : CallStarts(t) => thr[t].path \notin classified]_vars

\* C2: every image file that is in the folder and stays stable reaches a terminal
\* state without operator action: when the program can move no more, every
\* stable image file of the folder has been classified.
C2_EveryStableFileDecided ==
  ProgramIdle =>
    \A f \in Files : (IsImageName(f) /\ dir[f] = "stable") => Terminal(f)

\* C3: the two Modbus bits are never both 1, and when a classification call
\* starts both bits are 0 and the accept GPIO line is off.
C3_SignalsExclusive ==
  /\ [](modbus # << 1, 1 >>)
  /\ [][\A t \in Threads :
          CallStarts(t) => (modbus = << 0, 0 >> /\ ~accept_output)]_vars

\* C4: at most one analyze thread is between entering analyze and leaving it.
C4_OneInFlight == Cardinality({t \in Threads : InFlight(t)}) <= 1

\* C5: once an analysis that a clear overtook has finished, both counters are 0
\* and both signal lines are deasserted, until the next analysis is started.
C5_ResetDiscards ==
  race = "finished" =>
    /\ accept_count = 0
    /\ reject_count = 0
    /\ modbus = << 0, 0 >>
    /\ ~accept_output

\* C6: a transient failure of the service on the first call is retried: analyze
\* never handles it as the file's failure after a single call.
C6_TransientRetried ==
  \A t \in Threads :
    (thr[t].pc = "except" /\ thr[t].raised = "transient") => thr[t].calls > 1

\* C7: a failed outcome (a reply beginning with neither ACCEPT nor REJECT, the
\* unreadable-image string included) changes neither counter and leaves both
\* Modbus bits 0 and the GPIO line off.
C7_FailedNotCounted ==
  [][\A t \in Threads :
       (Counts(t) /\ ~Accepts(thr[t].verdict) /\ ~Rejects(thr[t].verdict)) =>
         /\ accept_count' = accept_count
         /\ reject_count' = reject_count
         /\ modbus' = << 0, 0 >>
         /\ ~accept_output']_vars

\* C8: a file is handed to analyze only when is_file_stable answered true in the
\* display_image call that hands it over.
C8_GatePassed == \A t \in Threads : thr[t].pc = "spawned" => thr[t].gate

\* C9: the files of one listing are in Sequencer order: numeric stems ascending
\* by integer value, and before the names whose stem is not a number.
C9_SequencerOrder == SequencerOrdered(list_images)

\* C10: for an analysis that runs alone on a readable file, an answer beginning
\* with ACCEPT ends with Modbus bits [1,0], the GPIO line on, accept_count one
\* higher and reject_count unchanged; an answer beginning with REJECT ends with
\* bits [0,1], the GPIO line off, reject_count one higher and accept_count
\* unchanged; in both no-brand modes.
C10_VerdictApplied ==
  [][\A t \in Threads :
       /\ (CallEnds(t) /\ thr[t].alone /\ thr[t].readable /\ Accepts(Answer(thr'[t])))
            => (thr'[t].pc = "count" /\ modbus' = << 1, 0 >>)
       /\ (CallEnds(t) /\ thr[t].alone /\ thr[t].readable /\ Rejects(Answer(thr'[t])))
            => (thr'[t].pc = "count" /\ modbus' = << 0, 1 >>)
       /\ (Counts(t) /\ thr[t].alone /\ Accepts(thr[t].verdict))
            => /\ thr'[t].pc = "finally"
               /\ modbus' = << 1, 0 >> /\ accept_output'
               /\ accept_count' = accept_count + 1 /\ reject_count' = reject_count
       /\ (Counts(t) /\ thr[t].alone /\ Rejects(thr[t].verdict))
            => /\ thr'[t].pc = "finally"
               /\ modbus' = << 0, 1 >> /\ ~accept_output'
               /\ reject_count' = reject_count + 1 /\ accept_count' = accept_count
    ]_vars

\* C11: an I/O error while listing the folder never ends the watch loop: the
\* poll_thr thread is never dead.
C11_WatchSurvives == w.pc # "dead"

\* C12: a clear_server that runs while no analysis is in flight leaves the image
\* list and the seen set empty, both counters 0, both Modbus bits 0 and the
\* GPIO line off.
C12_ResetNeutral ==
  [][(clear_server /\ \A t \in Threads : ~Live(t)) =>
       /\ images' = << >>
       /\ seen' = {}
       /\ accept_count' = 0
       /\ reject_count' = 0
       /\ modbus' = << 0, 0 >>
       /\ ~accept_output']_vars

\* C13: between clears a name is discovered at most once: the names a scan
\* appends to self.images as new are none of those discovered before (self.images
\* holds every name discovered since the last clear).
C13_DiscoveredOnce ==
  [][watch_scan =>
       \A i \in (Len(images) + 1)..Len(images') : images'[i] \notin Range(images)]_vars

\* C14: the counters are never negative; a step other than clear_server never
\* lowers a counter and raises the pair by at most one increment of one
\* counter; clear_server sets both to 0.
C14_CountsMonotone ==
  [][/\ accept_count' >= 0
     /\ reject_count' >= 0
     /\ clear_server => (accept_count' = 0 /\ reject_count' = 0)
     /\ ~clear_server =>
          /\ accept_count' >= accept_count
          /\ reject_count' >= reject_count
          /\ (accept_count' + reject_count') - (accept_count + reject_count) <= 1
    ]_vars

\* C15: the strictness level held in sensitivity_var is always one of 1..5.
C15_LevelInRange == sensitivity_var \in 1..5

\* the operator has picked the last entry of the menu, and the level is 5
C15_Witness == clicks > 0 /\ sensitivity_var = Len(level_names)

\* C16: the (strictness, no-brand) pair a classification is called with is a pair
\* the session state held at one instant before the call.
C16_ConfigSnapshot ==
  [][\A t \in Threads :
       CallStarts(t) => << thr[t].lvl, no_brand_var >> \in held]_vars

\* C17: is_file_stable answers true exactly when no read found the file
\* missing, the two sizes are equal and the mtime is more than wait_time before
\* the clock; a missing file at any of the three reads gives false.
C17_GateExact ==
  probe.done =>
    (probe.out <=>
       /\ probe.s.missing = "no"
       /\ probe.s.size = probe.s.new_size
       /\ probe.s.now - probe.s.mtime > probe.wait)

\* is_file_stable has answered true for two equal sizes and an old mtime
C17_Witness ==
  /\ probe.done /\ probe.out
  /\ probe.s.size = probe.s.new_size
  /\ probe.s.now - probe.s.mtime > probe.wait

\* C18: whenever no analyze thread is running the two sinks agree: the GPIO line
\* is on exactly when Modbus discrete input 0 is 1.
C18_SinksAgree ==
  (\A t \in Threads : ~Live(t)) => (accept_output <=> modbus[1] = 1)

\* C19: the analyzing flag is true whenever an analyze thread has been started
\* and has not finished, and watch_folder never lists the folder while one is
\* running.
C19_FlagCoversAnalysis ==
  /\ []((\E t \in Threads : Live(t)) => analyzing)
  /\ [][(watch_scan \/ watch_listing_error) => \A t \in Threads : ~Live(t)]_vars

\* C20: in watcher_pi.main no file is passed to classify_image twice; when the
\* for loop over a scan's list has ended every file of that list has been passed
\* to it once, whatever raised on the way; and between two calls processed
\* holds exactly the files classify_image was called for, returned or raised.
C20_HeadlessOnce ==
  /\ \A f \in Files : piCalls[f] <= 1
  /\ pi.pc = "top" => \A i \in 1..Len(pi.batch) : piCalls[pi.batch[i]] = 1
  /\ pi.pc # "classify" => processed = {f \in Files : piCalls[f] > 0}

\* a scan of two files has ended, the call for the first raised, the second was
\* classified all the same, and a later scan has skipped a processed file
C20_Witness ==
  /\ pi.pc = "top"
  /\ Len(pi.batch) = 2
  /\ pi.batch[1] \in piRaised
  /\ piCalls[pi.batch[2]] = 1
  /\ pi.batch[2] \notin piRaised

====
